---- MODULE Spec2Model ----
(***************************************************************************)
(* Model of VoiceCloner.clone_voice (src/voice_cloner.py): input           *)
(* validation, the parameter bag, the degrading synthesis invoker          *)
(* _safe_tts_to_file, sentence chunking, chunk-by-chunk synthesis with     *)
(* crossfaded merging, and the silence post-processing step.               *)
(*                                                                         *)
(* Strings are sequences of character blocks [c, n]: c is the character    *)
(* class of the block's last character ("ws" whitespace, "punct" one of    *)
(* . ! ?, "word" anything else) and n the number of characters in the      *)
(* block, so len() is the sum of the n; only "ws" blocks hold whitespace.  *)
(* The synthesis backend (self.tts.tts_to_file) and the file system are    *)
(* the environment: each backend call returns or raises, nondeterminis-    *)
(* tically, with an error message that may or may not list model_kwargs.   *)
(***************************************************************************)
EXTENDS Integers, Sequences, FiniteSets, TLC

VARIABLES
    text,           \* argument text
    speaker_wav,    \* the reference file on disk: [exists, size]
    emotion,        \* argument emotion ("none" for None)
    style_wav,      \* argument style_wav ("none" for None)
    gen,            \* arguments temperature, speed, repetition_penalty, length_penalty
    crossfade_ms,   \* argument crossfade_ms
    silence_thresh_db,   \* argument silence_thresh_db
    min_silence_len_ms,  \* argument min_silence_len_ms
    keep_silence_ms,     \* argument keep_silence_ms
    backend,        \* which synthesis backend is loaded (environment)
    pc,             \* position in clone_voice
    outdir,         \* does the parent directory of file_path exist
    tts_kwargs,     \* the parameter bag built at lines 87-121
    cross,          \* local cross
    raw_sentences,  \* local raw_sentences
    chunks,         \* local chunks
    i,              \* index of the chunk being synthesized (0: direct run)
    part_files,     \* local part_files
    combined,       \* local combined
    call_kwargs,    \* the bag handed to _safe_tts_to_file
    kw,             \* the invoker's working copy
    err_text,       \* the first failure's message
    log,            \* backend calls of the current invoker run, in order
    td,             \* the temporary chunk workspace: "none", "open", "released"
    fs,             \* audio files: path -> content
    audio,          \* local audio: the file loaded at line 239
    s_thresh,       \* local s_thresh (line 242); 0 until line 242 assigns it
    min_sil,        \* local min_sil (line 243)
    keep_ms,        \* local keep_ms (line 244)
    silent_ranges,  \* local silent_ranges
    swallowed,      \* the exception caught at line 274
    normalized,     \* has the silence post-processing block been entered
    exported,       \* has the merged waveform been exported (line 232)
    exc,            \* the exception in flight inside the outer try
    result,         \* what clone_voice returned or raised
    nInvoker,       \* number of invoker runs started
    nCalls,         \* number of backend calls made
    callOrder,      \* chunk indices in the order of their first backend call
    server,         \* the program serving requests with the module-level cloner
    now,            \* the wall clock, in the seconds strftime("%Y%m%d_%H%M%S") shows
    requests,       \* the requests made of the server and how far each has got
    in_call,        \* the requests with a tts_to_file call in progress on cloner.tts
    served,         \* the requests whose backend calls began, one entry per call
    outputs         \* what happened to the output file named after each second

\* the state of the servers around clone_voice
serverVars == <<server, now, requests, in_call, served, outputs>>

\* the state of one call of clone_voice
cloneVars == <<text, speaker_wav, emotion, style_wav, gen, crossfade_ms,
          silence_thresh_db, min_silence_len_ms, keep_silence_ms, backend,
          pc, outdir, tts_kwargs, cross, raw_sentences, chunks, i, part_files,
          combined, call_kwargs, kw, err_text, log, td, fs, audio, s_thresh, min_sil, keep_ms, silent_ranges,
          swallowed, normalized, exported, exc, result, nInvoker, nCalls, callOrder>>

vars == <<cloneVars, serverVars>>

----------------------------------------------------------------------------
(* Strings as sequences of character blocks *)

\* one whitespace character
Ws == [c |-> "ws", n |-> 1]
\* n non-whitespace characters, the last of them one of . ! ?
Sent(n) == [c |-> "punct", n |-> n]
\* n non-whitespace characters, the last of them not sentence-final punctuation
Word(n) == [c |-> "word", n |-> n]

RECURSIVE PyLen(_)
PyLen(s) == IF s = <<>> THEN 0 ELSE Head(s).n + PyLen(Tail(s))

RECURSIVE LStrip(_)
LStrip(s) == IF s # <<>> /\ Head(s).c = "ws" THEN LStrip(Tail(s)) ELSE s

RECURSIVE RStrip(_)
RStrip(s) ==
    IF s # <<>> /\ s[Len(s)].c = "ws" THEN RStrip(SubSeq(s, 1, Len(s) - 1)) ELSE s

\* str.strip()
Strip(s) == RStrip(LStrip(s))

\* first index >= k of s that is not whitespace (Len(s) + 1 when there is none)
RECURSIVE SkipWs(_, _)
SkipWs(s, k) == IF k <= Len(s) /\ s[k].c = "ws" THEN SkipWs(s, k + 1) ELSE k

\* re.split(r'(?<=[\.\!\?])\s+', s): cut at every whitespace run that directly
\* follows a sentence-final punctuation character
RECURSIVE SplitFrom(_, _, _)
SplitFrom(s, k, cur) ==
    IF k > Len(s) THEN <<cur>>
    ELSE IF s[k].c = "ws" /\ k > 1 /\ s[k - 1].c = "punct"
         THEN <<cur>> \o SplitFrom(s, SkipWs(s, k), <<>>)
         ELSE SplitFrom(s, k + 1, Append(cur, s[k]))

ReSplit(s) == SplitFrom(s, 1, <<>>)

RECURSIVE StripEach(_)
StripEach(ps) == IF ps = <<>> THEN <<>> ELSE <<Strip(Head(ps))>> \o StripEach(Tail(ps))

NonEmpty(s) == s # <<>>

\* line 185: [s.strip() for s in re.split(...) if s.strip()]
RawSentences(t) == SelectSeq(StripEach(ReSplit(t)), NonEmpty)

MAX_CHUNK_LENGTH == 250

\* the joined string without the separating space
JoinSentenceNoSpace(current_chunk, sent) == Strip(current_chunk \o sent)

\* line 194: (current_chunk + " " + sent).strip()
JoinSentence(current_chunk, sent) == Strip(current_chunk \o <<Ws>> \o sent)

\* the length test without the separating space
FitsWithoutSeparator(current_chunk, sent) ==
    PyLen(current_chunk) + PyLen(sent) <= MAX_CHUNK_LENGTH

\* the length test with the maximum itself not allowed
FitsBelowMaximum(current_chunk, sent) ==
    PyLen(current_chunk) + PyLen(sent) + 1 < MAX_CHUNK_LENGTH

\* line 193
Fits(current_chunk, sent) == PyLen(current_chunk) + PyLen(sent) + 1 <= MAX_CHUNK_LENGTH

\* lines 196-197: the chunks after closing current_chunk
CloseChunk(cs, current_chunk) ==
    IF current_chunk # <<>> THEN Append(cs, current_chunk) ELSE cs

\* lines 191-200: the loop from sentence k on, then the final append
RECURSIVE PlanLoop(_, _, _, _)
PlanLoop(sents, k, cs, current_chunk) ==
    IF k > Len(sents) THEN CloseChunk(cs, current_chunk)
    ELSE IF Fits(current_chunk, sents[k])
         THEN PlanLoop(sents, k + 1, cs, JoinSentence(current_chunk, sents[k]))
         ELSE PlanLoop(sents, k + 1, CloseChunk(cs, current_chunk), sents[k])

\* lines 187-200
PlanChunks(sents) == PlanLoop(sents, 1, <<>>, <<>>)

----------------------------------------------------------------------------
(* Inputs *)

MaxSentences == 2
MaxTextLen == 5
MaxSpans == 5
\* requests made of one server, backend calls of one run, seconds on the clock
MaxRequests == 2
MaxCalls == 2
MaxSeconds == 1

\* the k-th sentence of a request text: short (10 + k characters) or long
\* (240 + k characters), so that no two sentences of a text are equal
ShortSentence(k) == <<Word(4), Ws, Sent(5 + k)>>
LongSentence(k) == <<Word(200), Ws, Sent(39 + k)>>

RECURSIVE JoinWith(_, _)
\* " ".join(ss) for sep = <<Ws>>
JoinWith(ss, sep) ==
    IF ss = <<>> THEN <<>>
    ELSE IF Len(ss) = 1 THEN ss[1]
    ELSE ss[1] \o sep \o JoinWith(Tail(ss), sep)

\* n short sentences (they share one chunk) or n long ones (a chunk each)
SentenceTexts ==
    { JoinWith([k \in 1..n |-> IF long THEN LongSentence(k) ELSE ShortSentence(k)], <<Ws>>) :
        n \in 0..MaxSentences, long \in BOOLEAN }

\* the texts a request is made with: empty, whitespace only, no sentence-final
\* punctuation, and up to MaxSentences sentences
RequestTexts ==
    SentenceTexts \cup { <<Ws>>, <<Ws, Ws>>, <<Word(5), Ws, Word(5)>>, <<Word(300)>> }

\* the texts the chunk planner is exercised on
Alphabet == { Ws, Sent(2), Sent(124), Sent(125), Sent(251), Word(3) }
RECURSIVE SeqsUpTo(_, _)
SeqsUpTo(S, n) ==
    IF n = 0 THEN { <<>> }
    ELSE LET shorter == SeqsUpTo(S, n - 1)
         IN  shorter \cup { Append(s, x) : s \in { t \in shorter : Len(t) = n - 1 }, x \in S }
\* (a text that is empty after stripping never reaches the planner)
PlannerTexts == { t \in SeqsUpTo(Alphabet, MaxTextLen) : Strip(t) # <<>> }

\* Python argument values: the type and the literal
None == [t |-> "none", v |-> "None"]
PyInt(v) == [t |-> "int", v |-> v]
PyFloatLit(v) == [t |-> "float", v |-> v]
PyStr(v) == [t |-> "str", v |-> v]

GenKeys == { "temperature", "speed", "repetition_penalty", "length_penalty" }

\* the generation arguments: all omitted, some given, or one of them malformed
GenInputs ==
    { [k \in GenKeys |-> None],
      [k \in GenKeys |->
          CASE k = "temperature" -> PyFloatLit("0.5")
            [] k = "speed" -> PyInt("2")
            [] k = "repetition_penalty" -> PyStr("2.0")
            [] OTHER -> None] }
    \cup { [k \in GenKeys |-> IF k = bad THEN PyStr("abc") ELSE None] : bad \in GenKeys }

CrossfadeInputs ==
    { None, PyInt("0"), PyInt("40"), PyInt("-5"), PyStr("abc") }

IntNumerals == { "0", "40", "-5" }
NumeralValue(lit) ==
    CASE lit = "0" -> 0 [] lit = "40" -> 40 [] lit = "-5" -> -5
      [] lit = "100" -> 100 [] lit = "300" -> 300 [] lit = "-50" -> -50

IntAsFloat(lit) ==
    CASE lit = "2" -> "2.0" [] lit = "0" -> "0.0" [] lit = "40" -> "40.0" [] lit = "-5" -> "-5.0"

\* float(x): the float's literal, or "ValueError"
ToFloat(x) ==
    CASE x.t = "float" -> x.v
      [] x.t = "int" -> IntAsFloat(x.v)
      [] x.t = "str" -> IF x.v \in { "0.5", "2.0" } THEN x.v ELSE "ValueError"
      [] OTHER -> "ValueError"

\* int(x) succeeds
IntOk(x) == x.t = "int" \/ (x.t = "str" /\ x.v \in IntNumerals)
\* int(x) where it succeeds
ToInt(x) == NumeralValue(x.v)

\* emotion and style_wav
StyleInputs == { <<"none", "none">>, <<"happy", "none">>, <<"happy", "style.wav">> }

ReferenceFiles ==
    { [exists |-> FALSE, size |-> 0], [exists |-> TRUE, size |-> 999],
      [exists |-> TRUE, size |-> 1000] }

Backends == { "any", "rejects_style" }

----------------------------------------------------------------------------
(* Paths and audio *)

Final == [kind |-> "file_path", n |-> 0]
\* where tts_to_file writes when it is given no file_path
LibDefault == [kind |-> "default", n |-> 0]
\* line 210 (the model counts chunks from 1)
PartPath(k) == [kind |-> "part", n |-> k]
NoPath == [kind |-> "none", n |-> 0]

Paths == { Final, LibDefault } \cup { PartPath(k) : k \in 1..MaxSentences }

\* a stretch of a waveform: loud sound or digital silence, its length in ms,
\* and the synthesis run it comes from (-1: made by the pipeline itself)
Sound(d, src) == [k |-> "sound", d |-> d, src |-> src]
Silence(d, src) == [k |-> "silence", d |-> d, src |-> src]

\* len(audio) in ms
RECURSIVE WaveDur(_)
WaveDur(w) == IF w = <<>> THEN 0 ELSE Head(w).d + WaveDur(Tail(w))

\* audio[a:b] for 0 <= a, in ms
RECURSIVE SliceMs(_, _, _)
SliceMs(w, a, b) ==
    IF w = <<>> \/ b <= 0 THEN <<>>
    ELSE LET h == Head(w)
             lo == IF a > 0 THEN a ELSE 0
             hi == IF b < h.d THEN b ELSE h.d
         IN  (IF lo < hi THEN << [h EXCEPT !.d = hi - lo] >> ELSE <<>>)
             \o SliceMs(Tail(w), a - h.d, b - h.d)

\* the same waveform as made by synthesis run k
Stamp(w, k) == [j \in 1..Len(w) |-> [w[j] EXCEPT !.src = k]]

\* a waveform file: its segments in order, its duration in ms before any
\* silence rewriting, whether its silences were rewritten, its content, and
\* whether it was written to the end
NoFile ==
    [present |-> FALSE, segs |-> <<>>, dur |-> 0, processed |-> FALSE,
     wave |-> <<>>, complete |-> FALSE]

\* a file opened for writing and not written to the end
Truncated ==
    [present |-> TRUE, segs |-> <<>>, dur |-> 0, processed |-> FALSE,
     wave |-> <<>>, complete |-> FALSE]

\* the waveform one successful backend call writes: one segment, stamped with
\* the invoker run (chunk index) that made the call
Synthesized(k, callkw, w) ==
    [present |-> TRUE,
     segs |-> << [chunk |-> k, hastext |-> "text" \in DOMAIN callkw, dur |-> WaveDur(w)] >>,
     dur |-> WaveDur(w),
     processed |-> FALSE,
     wave |-> Stamp(w, k),
     complete |-> TRUE]

\* what the backend may synthesize: speech shorter than the crossfade, speech
\* without a pause, and speech with a pause longer than MIN_SILENCE_LEN_MS
Waveforms ==
    { << Sound(30, 0) >>, << Sound(300, 0) >>,
      << Sound(300, 0), Silence(500, 0), Sound(300, 0) >> }

\* how writing a file may end: written whole, not opened at all, or opened
\* (and so emptied) but not written to the end
ExportOutcomes == { "written", "unopened", "truncated" }

\* the file at a path after an export of new over old
Export(old, new, outcome) ==
    CASE outcome = "written" -> new
      [] outcome = "unopened" -> old
      [] OTHER -> Truncated

----------------------------------------------------------------------------
(* The parameter bag *)

CoreKeys == { "text", "speaker_wav", "language", "file_path" }
\* line 157
OptionalKeys == { "emotion", "style", "style_name", "style_wav",
                  "temperature", "speed", "repetition_penalty", "length_penalty" }
\* line 167
MinimalKeys == { "text", "speaker_wav", "file_path", "language" }

\* `if x:` on an optional string argument
Truthy(x) == x \notin { "none", "" }

\* config.py lines 119-122
GenDefault(k) ==
    CASE k = "temperature" -> "0.8"
      [] k = "speed" -> "1.0"
      [] k = "repetition_penalty" -> "1.2"
      [] k = "length_penalty" -> "1.0"

\* lines 102-121, one parameter
GenValue(k, x) == IF x.t # "none" THEN ToFloat(x) ELSE GenDefault(k)

\* d with the keys of ks removed (dict.pop(k, None) for k in ks)
Without(d, ks) == [k \in DOMAIN d \ ks |-> d[k]]

\* lines 87-121
BuildKwargs(t, e, sw, g) ==
    LET core == [k \in CoreKeys |->
                    CASE k = "text" -> t
                      [] k = "speaker_wav" -> "ref.wav"
                      [] k = "language" -> "de"
                      [] k = "file_path" -> Final]
        emo == IF Truthy(e) THEN [k \in { "emotion", "style", "style_name" } |-> e]
               ELSE <<>>
        sty == IF Truthy(sw) THEN [k \in { "style_wav" } |-> sw] ELSE <<>>
        adv == [k \in GenKeys |-> GenValue(k, g[k])]
    IN  adv @@ sty @@ emo @@ core

\* lines 211-213 (the model counts chunks from 1)
PartKwargs(bag, chunk, k) ==
    [key \in DOMAIN bag |->
        CASE key = "text" -> chunk
          [] key = "file_path" -> PartPath(k)
          [] OTHER -> bag[key]]

----------------------------------------------------------------------------
(* The synthesis backend and its failure messages *)

\* the key names a failure message may list
NamedKeys == { "style", "text", "file_path" }

RECURSIVE SetToSeq(_)
SetToSeq(S) ==
    IF S = {} THEN <<>>
    ELSE LET x == CHOOSE y \in S : TRUE IN <<x>> \o SetToSeq(S \ {x})

\* the text between the brackets of "... are not used by the model: [...]",
\* cut at the commas: a Python list repr, double-quoted names, or bare names
ListItems(keys, style) ==
    [k \in 1..Len(keys) |->
        CASE style = "repr" -> (IF k > 1 THEN <<" ">> ELSE <<>>) \o <<"'", keys[k], "'">>
          [] style = "json" -> (IF k > 1 THEN <<" ">> ELSE <<>>) \o <<"\"", keys[k], "\"">>
          [] OTHER -> <<keys[k]>>]

\* a failure message: does it hold the "model_kwargs are not used" sentence,
\* and the items of its list
NoMessage == [unused |-> FALSE, items |-> <<>>]
UnusedMessage(K, style) == [unused |-> TRUE, items |-> ListItems(SetToSeq(K), style)]

Messages ==
    { NoMessage, UnusedMessage({ "style" }, "bare"),
      UnusedMessage({ "style", "style_name" }, "json") }
    \cup { UnusedMessage(K, "repr") : K \in SUBSET NamedKeys }

RECURSIVE LStripChars(_, _)
LStripChars(s, cs) == IF s # <<>> /\ Head(s) \in cs THEN LStripChars(Tail(s), cs) ELSE s
RECURSIVE RStripChars(_, _)
RStripChars(s, cs) ==
    IF s # <<>> /\ s[Len(s)] \in cs THEN RStripChars(SubSeq(s, 1, Len(s) - 1), cs) ELSE s
StripChars(s, cs) == RStripChars(LStripChars(s, cs), cs)

\* line 143: the regular expression needs at least one character in the brackets
Matches(msg) == msg.unused /\ msg.items # <<>>

\* line 145: k.strip().strip("'\" ") for each item
BadKeys(msg) ==
    { LET name == StripChars(StripChars(msg.items[k], { " " }), { "'", "\"", " " })
      IN  IF name = <<>> THEN "" ELSE name[1] : k \in 1..Len(msg.items) }

Ok(w) == [ok |-> TRUE, msg |-> NoMessage, wave |-> w]
Fail(m) == [ok |-> FALSE, msg |-> m, wave |-> <<>>]

AnyResponse == { Ok(w) : w \in Waveforms } \cup { Fail(m) : m \in Messages }

\* what self.tts.tts_to_file(**callkw) may do, by the backend loaded
Responses(b, callkw) ==
    CASE b = "rejects_style" ->
            IF "style" \in DOMAIN callkw
            THEN { Fail(UnusedMessage({ "style" }, "repr")) }
            ELSE { Ok(w) : w \in Waveforms }
      [] OTHER -> AnyResponse

\* the file system after a successful call of run k
Written(files, k, callkw, w) ==
    LET path == IF "file_path" \in DOMAIN callkw THEN callkw["file_path"] ELSE LibDefault
    IN  [files EXCEPT ![path] = Synthesized(k, callkw, w)]

\* the second attempt dropping every optional key instead of the listed ones
Attempt2KwargsAllOptional(k, msg) == Without(k, OptionalKeys)
\* the third attempt keeping the generation parameters
Attempt3KwargsStyleOnly(k) == Without(k, { "emotion", "style", "style_name", "style_wav" })

\* lines 133-174, the bag each attempt calls the backend with
Attempt2Kwargs(k, msg) == Without(k, BadKeys(msg))
Attempt3Kwargs(k) == Without(k, OptionalKeys)
Attempt4Kwargs(k) == [key \in MinimalKeys \cap DOMAIN k |-> k[key]]

----------------------------------------------------------------------------
(* clone_voice *)

NoResult == [kind |-> "none", exc |-> "none", cause |-> "none", path |-> NoPath]
Raised(e, cause) == [kind |-> "raise", exc |-> e, cause |-> cause, path |-> NoPath]
Returned(path) == [kind |-> "return", exc |-> "none", cause |-> "none", path |-> path]

\* lines 177-180
CrossOf(x) == IF x.t # "none" /\ IntOk(x) THEN ToInt(x) ELSE 0

Req == 1..MaxRequests
Seconds == 0..MaxSeconds

\* a request not yet handled
Waiting ==
    [state |-> "waiting", blank |-> FALSE, reference |-> "none", calls |-> 0, made |-> 0,
     timestamp |-> -1, raised |-> "none", status |-> "none"]

\* no request has been made; clone_voice is called directly, as by the scripts
ServerIdle ==
    /\ server = "script"
    /\ now = 0
    /\ requests = [r \in Req |-> Waiting]
    /\ in_call = {}
    /\ served = <<>>
    /\ outputs = [t \in Seconds |-> <<>>]

\* the locals and the environment before the call
InitLocals ==
    /\ raw_sentences = <<>>
    /\ chunks = <<>>
    /\ i = 0
    /\ part_files = <<>>
    /\ combined = NoFile
    /\ call_kwargs = <<>>
    /\ kw = <<>>
    /\ err_text = NoMessage
    /\ log = <<>>
    /\ td = "none"
    /\ fs = [p \in Paths |-> NoFile]
    /\ audio = NoFile
    /\ s_thresh = 0
    /\ min_sil = 0
    /\ keep_ms = 0
    /\ silent_ranges = <<>>
    /\ swallowed = "none"
    /\ normalized = FALSE
    /\ exported = FALSE
    /\ exc = "none"
    /\ result = NoResult
    /\ nInvoker = 0
    /\ nCalls = 0
    /\ callOrder = <<>>

\* a call of clone_voice
Init ==
    /\ text \in RequestTexts
    /\ speaker_wav \in ReferenceFiles
    /\ \E st \in StyleInputs : emotion = st[1] /\ style_wav = st[2]
    /\ gen \in GenInputs
    /\ crossfade_ms \in CrossfadeInputs
    /\ silence_thresh_db = None
    /\ min_silence_len_ms = None
    /\ keep_silence_ms = None
    /\ backend \in Backends
    /\ outdir \in BOOLEAN
    /\ tts_kwargs = <<>>
    /\ cross = 0
    /\ pc = "validate_text"
    /\ InitLocals
    /\ ServerIdle

\* the calls whose termination is checked: every text, with and without
\* chunking, an emotion given, the generation arguments omitted or the first
\* of them malformed, and the backend free to answer every call in every way
InitLive ==
    /\ Init
    /\ crossfade_ms \in { PyInt("0"), PyInt("40") }
    /\ backend = "any"
    /\ emotion = "happy" /\ style_wav = "none"
    /\ speaker_wav.exists
    /\ \A k \in GenKeys \ { "temperature" } : gen[k] = None
    /\ gen["temperature"] \in { None, PyStr("abc") }

\* a call with crossfade on arriving at line 185, for every text
InitPlanner ==
    /\ text \in PlannerTexts
    /\ speaker_wav = [exists |-> TRUE, size |-> 1000]
    /\ emotion = "none"
    /\ style_wav = "none"
    /\ gen = [k \in GenKeys |-> None]
    /\ crossfade_ms = PyInt("40")
    /\ silence_thresh_db = None
    /\ min_silence_len_ms = None
    /\ keep_silence_ms = None
    /\ backend = "any"
    /\ outdir = TRUE
    /\ tts_kwargs = BuildKwargs(text, emotion, style_wav, gen)
    /\ cross = CrossOf(crossfade_ms)
    /\ pc = "plan"
    /\ InitLocals
    /\ ServerIdle

\* the waveforms the silence step is exercised on: up to MaxSpans stretches
\* of sound and of silence shorter than, as long as and longer than the
\* minimum, each stretch numbered by its place
SpanAlphabet == { Sound(100, 0), Silence(100, 0), Silence(300, 0), Silence(400, 0) }
Numbered(w) == [j \in 1..Len(w) |-> [w[j] EXCEPT !.src = j]]
NormalizerWaves == { Numbered(w) : w \in SeqsUpTo(SpanAlphabet, MaxSpans) \ { <<>> } }

\* the silence arguments: omitted, given, or given as 0
SilenceInputs ==
    [thresh : { None, PyInt("-50"), PyInt("0") }, min : { None, PyInt("300"), PyInt("0") },
     keep : { None, PyInt("100"), PyInt("0") }]

\* a call without crossfade arriving at line 237, its one backend call having
\* written any of the waveforms to file_path
InitNormalizer ==
    /\ text = <<Word(5)>>
    /\ speaker_wav = [exists |-> TRUE, size |-> 1000]
    /\ emotion = "none"
    /\ style_wav = "none"
    /\ gen = [k \in GenKeys |-> None]
    /\ crossfade_ms = None
    /\ \E si \in SilenceInputs :
          /\ silence_thresh_db = si.thresh
          /\ min_silence_len_ms = si.min
          /\ keep_silence_ms = si.keep
    /\ backend = "any"
    /\ outdir = TRUE
    /\ tts_kwargs = BuildKwargs(text, emotion, style_wav, gen)
    /\ cross = 0
    /\ pc = "normalize"
    /\ raw_sentences = <<>>
    /\ chunks = <<>>
    /\ i = 0
    /\ part_files = <<>>
    /\ combined = NoFile
    /\ call_kwargs = tts_kwargs
    /\ kw = tts_kwargs
    /\ err_text = NoMessage
    /\ log = << [level |-> 1, kw |-> tts_kwargs, ok |-> TRUE] >>
    /\ td = "none"
    /\ \E w \in NormalizerWaves :
          fs = [p \in Paths |->
                   IF p = Final
                   THEN [Synthesized(0, tts_kwargs, w) EXCEPT !.wave = w]
                   ELSE NoFile]
    /\ audio = NoFile
    /\ s_thresh = 0
    /\ min_sil = 0
    /\ keep_ms = 0
    /\ silent_ranges = <<>>
    /\ swallowed = "none"
    /\ normalized = FALSE
    /\ exported = FALSE
    /\ exc = "none"
    /\ result = NoResult
    /\ nInvoker = 1
    /\ nCalls = 1
    /\ callOrder = <<0>>
    /\ ServerIdle

\* the check without the strip()
TextIsEmptyUnstripped(t) == t = <<>>

\* line 69: not text or len(text.strip()) == 0
TextIsEmpty(t) == t = <<>> \/ PyLen(Strip(t)) = 0

\* lines 69-70
ValidateText ==
    /\ pc = "validate_text"
    /\ IF TextIsEmpty(text)
       THEN /\ result' = Raised("ValueError: Text cannot be empty", "none")
            /\ pc' = "done"
       ELSE /\ pc' = "validate_reference"
            /\ UNCHANGED result
    /\ UNCHANGED <<text, speaker_wav, emotion, style_wav, gen, crossfade_ms,
                   silence_thresh_db, min_silence_len_ms, keep_silence_ms, backend, serverVars,
                   outdir, tts_kwargs, cross, raw_sentences, chunks, i, part_files,
                   combined, call_kwargs, kw, err_text, log, td, fs, audio, s_thresh, min_sil, keep_ms, silent_ranges, swallowed,
                   normalized, exported, exc,
                   nInvoker, nCalls, callOrder>>

\* a minimum size one byte lower
ReferenceTooSmallBelow999(size) == size < 999

\* line 77
ReferenceTooSmall(size) == size < 1000

\* line 72
ReferenceMissing(ref) == ~ref.exists

\* lines 72-78
ValidateReference ==
    /\ pc = "validate_reference"
    /\ IF ReferenceMissing(speaker_wav)
       THEN /\ result' = Raised("FileNotFoundError: Reference audio file not found", "none")
            /\ pc' = "done"
       ELSE IF ReferenceTooSmall(speaker_wav.size)
       THEN /\ result' = Raised("ValueError: Reference audio file seems too small", "none")
            /\ pc' = "done"
       ELSE /\ pc' = "mkdir"
            /\ UNCHANGED result
    /\ UNCHANGED <<text, speaker_wav, emotion, style_wav, gen, crossfade_ms,
                   silence_thresh_db, min_silence_len_ms, keep_silence_ms, backend, serverVars,
                   outdir, tts_kwargs, cross, raw_sentences, chunks, i, part_files,
                   combined, call_kwargs, kw, err_text, log, td, fs, audio, s_thresh, min_sil, keep_ms, silent_ranges,
                   swallowed, normalized, exported, exc, nInvoker, nCalls, callOrder>>

\* line 84; the directory cannot always be created
MakeOutputDir ==
    /\ pc = "mkdir"
    /\ \E created \in BOOLEAN :
          IF outdir \/ created
          THEN /\ outdir' = TRUE
               /\ pc' = "build_kwargs"
               /\ UNCHANGED exc
          ELSE /\ exc' = "OSError: mkdir"
               /\ pc' = "wrap"
               /\ UNCHANGED outdir
    /\ UNCHANGED <<text, speaker_wav, emotion, style_wav, gen, crossfade_ms,
                   silence_thresh_db, min_silence_len_ms, keep_silence_ms, backend, serverVars,
                   tts_kwargs, cross, raw_sentences, chunks, i, part_files,
                   combined, call_kwargs, kw, err_text, log, td, fs, audio, s_thresh, min_sil, keep_ms, silent_ranges, swallowed,
                   normalized, exported,
                   result, nInvoker, nCalls, callOrder>>

\* lines 87-121; float() raises on a malformed value
PrepareKwargs ==
    /\ pc = "build_kwargs"
    /\ IF \E k \in GenKeys : GenValue(k, gen[k]) = "ValueError"
       THEN /\ exc' = "ValueError: could not convert string to float"
            /\ pc' = "wrap"
            /\ UNCHANGED tts_kwargs
       ELSE /\ tts_kwargs' = BuildKwargs(text, emotion, style_wav, gen)
            /\ pc' = "crossfade"
            /\ UNCHANGED exc
    /\ UNCHANGED <<text, speaker_wav, emotion, style_wav, gen, crossfade_ms,
                   silence_thresh_db, min_silence_len_ms, keep_silence_ms, backend, serverVars,
                   outdir, cross, raw_sentences, chunks, i, part_files,
                   combined, call_kwargs, kw, err_text, log, td, fs, audio, s_thresh, min_sil, keep_ms, silent_ranges, swallowed,
                   normalized, exported,
                   result, nInvoker, nCalls, callOrder>>

\* a crossfade of 0 taken as a request to chunk
CrossfadeRequestedFromZero(c) == c >= 0

\* line 182
CrossfadeRequested(c) == c > 0

\* lines 177-182
Crossfade ==
    /\ pc = "crossfade"
    /\ cross' = CrossOf(crossfade_ms)
    /\ pc' = IF CrossfadeRequested(cross') THEN "plan" ELSE "direct"
    /\ UNCHANGED <<text, speaker_wav, emotion, style_wav, gen, crossfade_ms,
                   silence_thresh_db, min_silence_len_ms, keep_silence_ms, backend, serverVars,
                   outdir, tts_kwargs, raw_sentences, chunks, i, part_files,
                   combined, call_kwargs, kw, err_text, log, td, fs, audio, s_thresh, min_sil, keep_ms, silent_ranges, swallowed,
                   normalized, exported, exc,
                   result, nInvoker, nCalls, callOrder>>

\* only an empty plan run directly
RunsDirectlyOnlyIfEmpty(cs) == Len(cs) < 1

\* line 203
RunsDirectly(cs) == Len(cs) <= 1

\* lines 185-207: split, group, and choose between the direct run and the
\* chunk-by-chunk run in a fresh temporary directory, which cannot always be
\* created
Plan ==
    /\ pc = "plan"
    /\ raw_sentences' = RawSentences(text)
    /\ chunks' = PlanChunks(raw_sentences')
    /\ IF RunsDirectly(chunks')
       THEN /\ pc' = "direct"
            /\ UNCHANGED <<td, i, exc>>
       ELSE \E created \in BOOLEAN :
               IF created
               THEN /\ pc' = "chunk_loop"
                    /\ td' = "open"
                    /\ i' = 1
                    /\ UNCHANGED exc
               ELSE /\ pc' = "wrap"
                    /\ exc' = "OSError: mkdtemp"
                    /\ UNCHANGED <<td, i>>
    /\ UNCHANGED <<text, speaker_wav, emotion, style_wav, gen, crossfade_ms,
                   silence_thresh_db, min_silence_len_ms, keep_silence_ms, backend, serverVars,
                   outdir, tts_kwargs, cross, part_files,
                   combined, call_kwargs, kw, err_text, log, fs, audio, s_thresh, min_sil, keep_ms, silent_ranges,
                   swallowed, normalized, exported, result, nInvoker, nCalls, callOrder>>

\* the caller's dict were the invoker to work on it directly
CallerBagAliased(given, working) == working

\* line 131: kw is a copy, so the pops of lines 148 and 158 leave the dict
\* the caller handed in as it was
CallerBag(given, working) == given

\* line 131, on entry to _safe_tts_to_file(bag)
EnterInvoker(bag) ==
    /\ call_kwargs' = bag
    /\ kw' = bag
    /\ err_text' = NoMessage
    /\ log' = <<>>
    /\ nInvoker' = nInvoker + 1
    /\ pc' = "attempt1"

\* lines 204 and 234
Direct ==
    /\ pc = "direct"
    /\ EnterInvoker(tts_kwargs)
    /\ UNCHANGED <<text, speaker_wav, emotion, style_wav, gen, crossfade_ms,
                   silence_thresh_db, min_silence_len_ms, keep_silence_ms, backend, serverVars,
                   outdir, tts_kwargs, cross, raw_sentences, chunks, i, part_files,
                   combined, td, fs, audio, s_thresh, min_sil, keep_ms, silent_ranges, swallowed,
                   normalized, exported, exc, result, nCalls, callOrder>>

\* lines 209-215
NextChunk ==
    /\ pc = "chunk_loop"
    /\ i <= Len(chunks)
    /\ EnterInvoker(PartKwargs(tts_kwargs, chunks[i], i))
    /\ UNCHANGED <<text, speaker_wav, emotion, style_wav, gen, crossfade_ms,
                   silence_thresh_db, min_silence_len_ms, keep_silence_ms, backend, serverVars,
                   outdir, tts_kwargs, cross, raw_sentences, chunks, i, part_files,
                   combined, td, fs, audio, s_thresh, min_sil, keep_ms, silent_ranges, swallowed,
                   normalized, exported, exc, result, nCalls, callOrder>>

\* one call self.tts.tts_to_file(**callkw) answered by r
BackendCall(level, callkw, r) ==
    /\ log' = Append(log, [level |-> level, kw |-> callkw, ok |-> r.ok])
    /\ nCalls' = nCalls + 1
    /\ fs' = IF r.ok THEN Written(fs, i, callkw, r.wave) ELSE fs

\* lines 133-139
Attempt1 ==
    /\ pc = "attempt1"
    /\ \E r \in Responses(backend, kw) :
          /\ BackendCall(1, kw, r)
          /\ IF r.ok
             THEN /\ pc' = "invoker_return"
                  /\ UNCHANGED err_text
             ELSE /\ pc' = "attempt2"
                  /\ err_text' = r.msg
    /\ callOrder' = Append(callOrder, i)
    /\ UNCHANGED <<text, speaker_wav, emotion, style_wav, gen, crossfade_ms,
                   silence_thresh_db, min_silence_len_ms, keep_silence_ms, backend, serverVars,
                   outdir, tts_kwargs, cross, raw_sentences, chunks, i, part_files,
                   combined, call_kwargs, kw, td, audio, s_thresh, min_sil, keep_ms, silent_ranges, swallowed,
                   normalized, exported, exc, result, nInvoker>>

\* lines 142-153, the message lists model_kwargs
Attempt2 ==
    /\ pc = "attempt2"
    /\ Matches(err_text)
    /\ kw' = Attempt2Kwargs(kw, err_text)
    /\ call_kwargs' = CallerBag(call_kwargs, kw')
    /\ \E r \in Responses(backend, kw') :
          /\ BackendCall(2, kw', r)
          /\ pc' = IF r.ok THEN "invoker_return" ELSE "attempt3"
    /\ UNCHANGED <<text, speaker_wav, emotion, style_wav, gen, crossfade_ms,
                   silence_thresh_db, min_silence_len_ms, keep_silence_ms, backend, serverVars,
                   outdir, tts_kwargs, cross, raw_sentences, chunks, i, part_files,
                   combined, err_text, td, audio, s_thresh, min_sil, keep_ms, silent_ranges, swallowed,
                   normalized, exported, exc, result,
                   nInvoker, callOrder>>

\* lines 142-144, the message lists none: no second call
SkipAttempt2 ==
    /\ pc = "attempt2"
    /\ ~Matches(err_text)
    /\ pc' = "attempt3"
    /\ UNCHANGED <<text, speaker_wav, emotion, style_wav, gen, crossfade_ms,
                   silence_thresh_db, min_silence_len_ms, keep_silence_ms, backend, serverVars,
                   outdir, tts_kwargs, cross, raw_sentences, chunks, i, part_files,
                   combined, call_kwargs, kw, err_text, log, td, fs, audio, s_thresh, min_sil, keep_ms, silent_ranges, swallowed,
                   normalized, exported, exc,
                   result, nInvoker, nCalls, callOrder>>

\* lines 156-163
Attempt3 ==
    /\ pc = "attempt3"
    /\ kw' = Attempt3Kwargs(kw)
    /\ call_kwargs' = CallerBag(call_kwargs, kw')
    /\ \E r \in Responses(backend, kw') :
          /\ BackendCall(3, kw', r)
          /\ pc' = IF r.ok THEN "invoker_return" ELSE "attempt4"
    /\ UNCHANGED <<text, speaker_wav, emotion, style_wav, gen, crossfade_ms,
                   silence_thresh_db, min_silence_len_ms, keep_silence_ms, backend, serverVars,
                   outdir, tts_kwargs, cross, raw_sentences, chunks, i, part_files,
                   combined, err_text, td, audio, s_thresh, min_sil, keep_ms, silent_ranges, swallowed,
                   normalized, exported, exc, result,
                   nInvoker, callOrder>>

\* the protocol started over after the fourth failure
AfterLastAttemptStartsOver == "attempt1"

\* lines 171-174: the fourth failure is raised to the caller
AfterLastAttempt == "invoker_raise"

\* lines 166-174
Attempt4 ==
    /\ pc = "attempt4"
    /\ \E r \in Responses(backend, Attempt4Kwargs(kw)) :
          /\ BackendCall(4, Attempt4Kwargs(kw), r)
          /\ IF r.ok
             THEN /\ pc' = "invoker_return"
                  /\ UNCHANGED exc
             ELSE /\ pc' = AfterLastAttempt
                  /\ exc' = "TTSError"
    /\ UNCHANGED <<text, speaker_wav, emotion, style_wav, gen, crossfade_ms,
                   silence_thresh_db, min_silence_len_ms, keep_silence_ms, backend, serverVars,
                   outdir, tts_kwargs, cross, raw_sentences, chunks, i, part_files,
                   combined, call_kwargs, kw, err_text, td, audio, s_thresh, min_sil, keep_ms, silent_ranges, swallowed,
                   normalized, exported, result,
                   nInvoker, callOrder>>

\* the temporary directory's files left behind
ReleasedNothing(files) == files

\* the files of the temporary directory are gone once it is released
Released(files) == [p \in Paths |-> IF p.kind = "part" THEN NoFile ELSE files[p]]

\* lines 204 and 234 return
DirectDone ==
    /\ pc = "invoker_return"
    /\ i = 0
    /\ pc' = "normalize"
    /\ UNCHANGED <<text, speaker_wav, emotion, style_wav, gen, crossfade_ms,
                   silence_thresh_db, min_silence_len_ms, keep_silence_ms, backend, serverVars,
                   outdir, tts_kwargs, cross, raw_sentences, chunks, i, part_files,
                   combined, call_kwargs, kw, err_text, log, td, fs, audio, s_thresh, min_sil, keep_ms, silent_ranges, swallowed,
                   normalized, exported, exc,
                   result, nInvoker, nCalls, callOrder>>

\* lines 204 and 234 raise
DirectFailed ==
    /\ pc = "invoker_raise"
    /\ i = 0
    /\ pc' = "wrap"
    /\ UNCHANGED <<text, speaker_wav, emotion, style_wav, gen, crossfade_ms,
                   silence_thresh_db, min_silence_len_ms, keep_silence_ms, backend, serverVars,
                   outdir, tts_kwargs, cross, raw_sentences, chunks, i, part_files,
                   combined, call_kwargs, kw, err_text, log, td, fs, audio, s_thresh, min_sil, keep_ms, silent_ranges, swallowed,
                   normalized, exported, exc,
                   result, nInvoker, nCalls, callOrder>>

\* line 216
ChunkDone ==
    /\ pc = "invoker_return"
    /\ i > 0
    /\ part_files' = Append(part_files, PartPath(i))
    /\ i' = i + 1
    /\ pc' = IF i' <= Len(chunks) THEN "chunk_loop" ELSE "stitch"
    /\ UNCHANGED <<text, speaker_wav, emotion, style_wav, gen, crossfade_ms,
                   silence_thresh_db, min_silence_len_ms, keep_silence_ms, backend, serverVars,
                   outdir, tts_kwargs, cross, raw_sentences, chunks,
                   combined, call_kwargs, kw, err_text, log, td, fs, audio, s_thresh, min_sil, keep_ms, silent_ranges, swallowed,
                   normalized, exported, exc,
                   result, nInvoker, nCalls, callOrder>>

\* the failed chunk skipped and the loop continued
ChunkFailedSkipsChunk ==
    /\ pc = "invoker_raise"
    /\ i > 0
    /\ i' = i + 1
    /\ pc' = IF i' <= Len(chunks) THEN "chunk_loop" ELSE "stitch"
    /\ UNCHANGED <<text, speaker_wav, emotion, style_wav, gen, crossfade_ms,
                   silence_thresh_db, min_silence_len_ms, keep_silence_ms, backend, serverVars,
                   outdir, tts_kwargs, cross, raw_sentences, chunks, part_files,
                   combined, call_kwargs, kw, err_text, log, td, fs, audio, s_thresh, min_sil, keep_ms, silent_ranges, swallowed,
                   normalized,
                   exported, exc, result, nInvoker, nCalls, callOrder>>

\* lines 217-220, and the with block left by the exception
ChunkFailed ==
    /\ pc = "invoker_raise"
    /\ i > 0
    /\ td' = "released"
    /\ fs' = Released(fs)
    /\ pc' = "wrap"
    /\ UNCHANGED <<text, speaker_wav, emotion, style_wav, gen, crossfade_ms,
                   silence_thresh_db, min_silence_len_ms, keep_silence_ms, backend, serverVars,
                   outdir, tts_kwargs, cross, raw_sentences, chunks, i, part_files,
                   combined, call_kwargs, kw, err_text, log, audio, s_thresh, min_sil, keep_ms, silent_ranges, swallowed,
                   normalized, exported, exc,
                   result, nInvoker, nCalls, callOrder>>

\* pydub AudioSegment.append(seg, crossfade=c) raises when the crossfade is
\* longer than either operand
CrossfadeTooLong(a, b, c) == c > a.dur \/ c > b.dur

\* line 229, the audio: the last c ms of awave fade out under the first c ms
\* of bwave fading in; without a crossfade the two are put end to end
Crossfaded(tail, head, c) ==
    [k |-> IF \A j \in 1..Len(tail \o head) : (tail \o head)[j].k = "silence"
           THEN "silence" ELSE "sound",
     d |-> c, src |-> -1]
Overlap(awave, bwave, c) ==
    IF c = 0 THEN awave \o bwave
    ELSE SliceMs(awave, 0, WaveDur(awave) - c)
         \o << Crossfaded(SliceMs(awave, WaveDur(awave) - c, WaveDur(awave)),
                          SliceMs(bwave, 0, c), c) >>
         \o SliceMs(bwave, c, WaveDur(bwave))

\* the new segment put in front
AppendSegmentInFront(a, b, c) ==
    [present |-> TRUE, segs |-> b.segs \o a.segs, dur |-> a.dur + b.dur - c,
     processed |-> FALSE, wave |-> Overlap(b.wave, a.wave, c), complete |-> TRUE]

\* the segments put end to end, no overlap
AppendSegmentNoOverlap(a, b, c) ==
    [present |-> TRUE, segs |-> a.segs \o b.segs, dur |-> WaveDur(a.wave \o b.wave),
     processed |-> FALSE, wave |-> a.wave \o b.wave, complete |-> TRUE]

\* line 229: combined.append(seg, crossfade=c)
AppendSegment(a, b, c) ==
    [present |-> TRUE, segs |-> a.segs \o b.segs,
     dur |-> WaveDur(Overlap(a.wave, b.wave, c)),
     processed |-> FALSE, wave |-> Overlap(a.wave, b.wave, c), complete |-> TRUE]

\* lines 223-229 from part k on: the error raised, and the waveform so far
RECURSIVE Combine(_, _, _, _, _)
Combine(files, paths, k, acc, c) ==
    IF k > Len(paths) THEN [err |-> "none", audio |-> acc]
    ELSE IF ~files[paths[k]].present
         THEN [err |-> "FileNotFoundError: part file", audio |-> acc]
    ELSE IF k = 1 THEN Combine(files, paths, k + 1, files[paths[k]], c)
    ELSE IF CrossfadeTooLong(acc, files[paths[k]], c)
         THEN [err |-> "ValueError: Crossfade is longer than the original AudioSegment",
               audio |-> acc]
    ELSE Combine(files, paths, k + 1, AppendSegment(acc, files[paths[k]], c), c)

\* lines 222-232, and the with block left: load the parts in order, join them,
\* export to file_path; the export cannot always be written
Stitch ==
    /\ pc = "stitch"
    /\ LET merged == Combine(fs, part_files, 1, NoFile, cross)
       IN  /\ combined' = merged.audio
           /\ IF merged.err # "none"
              THEN /\ exc' = merged.err
                   /\ fs' = Released(fs)
                   /\ pc' = "wrap"
                   /\ UNCHANGED exported
              ELSE \E outcome \in ExportOutcomes :
                      /\ fs' = Released([fs EXCEPT
                                   ![Final] = Export(@, merged.audio, outcome)])
                      /\ IF outcome = "written"
                         THEN /\ exported' = TRUE
                              /\ pc' = "normalize"
                              /\ UNCHANGED exc
                         ELSE /\ exc' = "OSError: export"
                              /\ pc' = "wrap"
                              /\ UNCHANGED exported
    /\ td' = "released"
    /\ UNCHANGED <<text, speaker_wav, emotion, style_wav, gen, crossfade_ms,
                   silence_thresh_db, min_silence_len_ms, keep_silence_ms, backend, serverVars,
                   outdir, tts_kwargs, cross, raw_sentences, chunks, i, part_files,
                   call_kwargs, kw, err_text, log, audio, s_thresh, min_sil, keep_ms, silent_ranges, swallowed,
                   normalized, result, nInvoker, nCalls, callOrder>>

\* silence.detect_silence scanning w from position pos: the maximal stretches
\* of silence as <<start, end>> in ms (open: where the current stretch began,
\* -1 outside one)
RECURSIVE SilentRuns(_, _, _, _)
SilentRuns(w, pos, open, acc) ==
    IF w = <<>>
    THEN IF open >= 0 THEN Append(acc, <<open, pos>>) ELSE acc
    ELSE LET h == Head(w)
         IN  IF h.k = "silence"
             THEN SilentRuns(Tail(w), pos + h.d, IF open >= 0 THEN open ELSE pos, acc)
             ELSE SilentRuns(Tail(w), pos + h.d, -1,
                             IF open >= 0 THEN Append(acc, <<open, pos>>) ELSE acc)

\* what detect_silence hears of w at the threshold: sound is louder than every
\* negative threshold in use, and no audio is above 0 dBFS
Heard(w, silence_thresh) ==
    [j \in 1..Len(w) |-> IF silence_thresh >= 0 THEN [w[j] EXCEPT !.k = "silence"] ELSE w[j]]

\* lines 246-250: the stretches at least min_silence_len long and at or below
\* the threshold throughout. pydub slides a window of min_silence_len ms over
\* the audio; a window of 0 ms is empty, has RMS 0 and is silent wherever it
\* is, so a minimum of 0 yields one range over the whole audio.
DetectSilence(w, min_silence_len, silence_thresh) ==
    IF min_silence_len = 0 THEN << <<0, WaveDur(w)>> >>
    ELSE SelectSeq(SilentRuns(Heard(w, silence_thresh), 0, -1, <<>>),
                   LAMBDA r : r[2] - r[1] >= min_silence_len)

\* line 262 appending nothing
KeepSilenceNone(keep) == <<>>

\* line 262: AudioSegment.silent(duration=keep)
KeepSilence(keep) == IF keep > 0 THEN << Silence(keep, -1) >> ELSE <<>>

\* lines 265-266 dropping the audio after the last silence
TrailingPartDropped(w, prev_end) == <<>>

\* lines 265-266
TrailingPart(w, prev_end) ==
    IF prev_end < WaveDur(w) THEN << SliceMs(w, prev_end, WaveDur(w)) >> ELSE <<>>

\* lines 255-266 from range k on
RECURSIVE Parts(_, _, _, _, _)
Parts(w, ranges, k, prev_end, keep) ==
    IF k > Len(ranges) THEN TrailingPart(w, prev_end)
    ELSE LET start_ms == ranges[k][1]
             end_ms == ranges[k][2]
         IN  (IF start_ms > prev_end THEN << SliceMs(w, prev_end, start_ms) >> ELSE <<>>)
             \o << KeepSilence(keep) >>
             \o Parts(w, ranges, k + 1, end_ms, keep)

\* line 268: sum(parts)
RECURSIVE SumParts(_)
SumParts(parts) == IF parts = <<>> THEN <<>> ELSE Head(parts) \o SumParts(Tail(parts))

\* lines 254-268: the file's audio with its long silences cut down
Processed(file, ranges, keep) ==
    [file EXCEPT !.wave = SumParts(Parts(file.wave, ranges, 1, 0, keep)),
                 !.processed = TRUE]

\* the rewriting done whether or not a silence was found
HasRangesAlways(ranges) == TRUE

\* line 252
HasRanges(ranges) == ranges # <<>>

\* config.py lines 110-112
SILENCE_THRESH_DB == -40
MIN_SILENCE_LEN_MS == 400
KEEP_SILENCE_MS == 250

\* the override taken by its truth value: x or default
SilenceSettingIfTruthy(x, default) ==
    IF x.t # "none" /\ NumeralValue(x.v) # 0 THEN NumeralValue(x.v) ELSE default

\* lines 242-244: x if x is not None else default
SilenceSetting(x, default) == IF x.t # "none" THEN NumeralValue(x.v) ELSE default

\* line 239: AudioSegment.from_file(file_path) can read the file
Loadable(file) == file.present /\ file.complete

\* lines 237-275: load the file at file_path, look for long silences, and if
\* there are any export the rebuilt waveform over it; a failure anywhere in
\* the block (no file to load, export not written) is logged and swallowed.
Normalize ==
    /\ pc = "normalize"
    /\ normalized' = TRUE
    /\ IF ~Loadable(fs[Final])
       THEN /\ audio' = NoFile
            /\ silent_ranges' = <<>>
            /\ swallowed' = "from_file"
            /\ fs' = fs
            /\ UNCHANGED <<s_thresh, min_sil, keep_ms>>
       ELSE /\ audio' = fs[Final]
            /\ s_thresh' = SilenceSetting(silence_thresh_db, SILENCE_THRESH_DB)
            /\ min_sil' = SilenceSetting(min_silence_len_ms, MIN_SILENCE_LEN_MS)
            /\ keep_ms' = SilenceSetting(keep_silence_ms, KEEP_SILENCE_MS)
            /\ silent_ranges' = DetectSilence(audio'.wave, min_sil', s_thresh')
            /\ IF HasRanges(silent_ranges')
               THEN \E outcome \in ExportOutcomes :
                       /\ fs' = [fs EXCEPT ![Final] =
                                    Export(@, Processed(audio', silent_ranges', keep_ms'),
                                           outcome)]
                       /\ swallowed' = IF outcome = "written" THEN "none" ELSE "export"
               ELSE /\ fs' = fs
                    /\ swallowed' = "none"
    /\ pc' = "return"
    /\ UNCHANGED <<text, speaker_wav, emotion, style_wav, gen, crossfade_ms,
                   silence_thresh_db, min_silence_len_ms, keep_silence_ms, backend, serverVars,
                   outdir, tts_kwargs, cross, raw_sentences, chunks, i, part_files,
                   combined, call_kwargs, kw, err_text, log, td, exported, exc,
                   result, nInvoker, nCalls, callOrder>>

\* lines 277-278
Return ==
    /\ pc = "return"
    /\ result' = Returned(tts_kwargs["file_path"])
    /\ pc' = "done"
    /\ UNCHANGED <<text, speaker_wav, emotion, style_wav, gen, crossfade_ms,
                   silence_thresh_db, min_silence_len_ms, keep_silence_ms, backend, serverVars,
                   outdir, tts_kwargs, cross, raw_sentences, chunks, i, part_files,
                   combined, call_kwargs, kw, err_text, log, td, fs, audio, s_thresh, min_sil, keep_ms, silent_ranges, swallowed,
                   normalized, exported, exc,
                   nInvoker, nCalls, callOrder>>

\* the exception let through as it is
WrapReraises ==
    /\ pc = "wrap"
    /\ result' = Raised(exc, "none")
    /\ pc' = "done"
    /\ UNCHANGED <<text, speaker_wav, emotion, style_wav, gen, crossfade_ms,
                   silence_thresh_db, min_silence_len_ms, keep_silence_ms, backend, serverVars,
                   outdir, tts_kwargs, cross, raw_sentences, chunks, i, part_files,
                   combined, call_kwargs, kw, err_text, log, td, fs, audio, s_thresh, min_sil, keep_ms, silent_ranges,
                   swallowed, normalized, exported, exc, nInvoker, nCalls, callOrder>>

\* lines 280-283
Wrap ==
    /\ pc = "wrap"
    /\ result' = Raised("RuntimeError: Failed to clone voice", exc)
    /\ pc' = "done"
    /\ UNCHANGED <<text, speaker_wav, emotion, style_wav, gen, crossfade_ms,
                   silence_thresh_db, min_silence_len_ms, keep_silence_ms, backend, serverVars,
                   outdir, tts_kwargs, cross, raw_sentences, chunks, i, part_files,
                   combined, call_kwargs, kw, err_text, log, td, fs, audio, s_thresh, min_sil, keep_ms, silent_ranges, swallowed,
                   normalized, exported, exc,
                   nInvoker, nCalls, callOrder>>

Next ==
    \/ ValidateText
    \/ ValidateReference
    \/ MakeOutputDir
    \/ PrepareKwargs
    \/ Crossfade
    \/ Plan
    \/ Direct
    \/ NextChunk
    \/ Attempt1
    \/ Attempt2
    \/ SkipAttempt2
    \/ Attempt3
    \/ Attempt4
    \/ DirectDone
    \/ DirectFailed
    \/ ChunkDone
    \/ ChunkFailed
    \/ Stitch
    \/ Normalize
    \/ Return
    \/ Wrap

Spec == Init /\ [][Next]_vars

\* clone_voice is one sequential call: while a step is possible the next one
\* is taken (every backend call returns or raises)
SpecLive == InitLive /\ [][Next]_vars /\ WF_vars(Next)

\* the chunk planner alone, on every text up to MaxTextLen blocks
NextPlanner == Plan
SpecPlanner == InitPlanner /\ [][NextPlanner]_vars

\* the silence step alone, on every waveform up to MaxSpans stretches
NextNormalizer == Normalize \/ Return
SpecNormalizer == InitNormalizer /\ [][NextNormalizer]_vars

----------------------------------------------------------------------------
(* The servers around clone_voice: tts_server.py and app.py share one       *)
(* VoiceCloner made at import; api_server.py and tts_edge_server.py         *)
(* synthesize with edge_tts. A run of clone_voice is taken here as its      *)
(* backend calls, one after the other, and the writing of its output file.  *)

Servers == { "tts_server", "app", "api_server", "tts_edge_server" }

\* the handlers that have begun and not yet answered
Running == { r \in Req : requests[r].state \notin { "waiting", "done" } }

\* When the framework may start a handler. tts_server's handler is a
\* coroutine without an await (lines 39-91), so the event loop runs it from
\* entry to answer before it starts another. process_pipeline is a plain
\* function that Gradio runs on worker threads; app.py sets up no queue and
\* takes no lock, so nothing in it keeps two runs apart. The edge_tts
\* handlers await the stream and give way to each other there.
CanDispatch(srv, running) == srv = "tts_server" => running = {}

\* tts_server.py lines 45-58: the reference as given, else outputs/<name>,
\* else the first .wav in outputs, else nothing
ResolveReference(at_root, in_outputs, any_wav) ==
    CASE at_root -> "given"
      [] in_outputs -> "outputs"
      [] any_wav -> "any_wav"
      [] OTHER -> "missing"

\* what the handlers' 'except Exception as e: raise HTTPException(500, ...)'
\* makes of an exception raised inside their try block: HTTPException is an
\* Exception, so it is caught like any other
Caught(e) == "HTTPException(500)"

StatusOf(e) ==
    CASE e = "HTTPException(400)" -> "400"
      [] e = "HTTPException(404)" -> "404"
      [] OTHER -> "500"

\* the handler of request q ends by raising e inside its try block
Fails(q, e) == [q EXCEPT !.state = "done", !.raised = e, !.status = StatusOf(Caught(e))]

\* the wall clock moves on
Tick ==
    /\ server \in Servers
    /\ now < MaxSeconds
    /\ now' = now + 1
    /\ UNCHANGED <<server, requests, in_call, served, outputs>>
    /\ UNCHANGED cloneVars

\* tts_server.py lines 39-75, up to the call of clone_voice, and lines 69-70
\* of clone_voice
TtsServerGenerateSpeech ==
    /\ server = "tts_server"
    /\ \E r \in Req :
          /\ requests[r].state = "waiting"
          /\ CanDispatch(server, Running)
          /\ \E blank \in BOOLEAN, at_root \in BOOLEAN, in_outputs \in BOOLEAN,
                any_wav \in BOOLEAN, n \in 1..MaxCalls :
                LET ref == ResolveReference(at_root, in_outputs, any_wav)
                    q == [requests[r] EXCEPT !.blank = blank, !.reference = ref]
                IN  requests' = [requests EXCEPT ![r] =
                        IF ref = "missing" THEN Fails(q, "HTTPException(404)")
                        ELSE IF blank
                        THEN Fails([q EXCEPT !.timestamp = now], "ValueError")
                        ELSE [q EXCEPT !.state = "clone_voice", !.calls = n,
                                       !.timestamp = now]]
    /\ UNCHANGED <<server, now, in_call, served, outputs>>
    /\ UNCHANGED cloneVars

\* app.py lines 33-95, up to the call of clone_voice: a missing upload, a
\* blank prompt or a failed text generation end the run with a message
ProcessPipeline ==
    /\ server = "app"
    /\ \E r \in Req :
          /\ requests[r].state = "waiting"
          /\ CanDispatch(server, Running)
          /\ \E audio_file \in BOOLEAN, blank \in BOOLEAN, generated \in BOOLEAN,
                n \in 1..MaxCalls :
                LET q == [requests[r] EXCEPT
                             !.blank = blank,
                             !.reference = IF audio_file THEN "given" ELSE "missing"]
                IN  requests' = [requests EXCEPT ![r] =
                        IF ~audio_file \/ blank \/ ~generated
                        THEN [q EXCEPT !.state = "done", !.status = "message"]
                        ELSE [q EXCEPT !.state = "clone_voice", !.calls = n,
                                       !.timestamp = now]]
    /\ UNCHANGED <<server, now, in_call, served, outputs>>
    /\ UNCHANGED cloneVars

\* the handlers of api_server.py (lines 169-196) and tts_edge_server.py
\* (lines 60-87) up to the stream
EdgeHandlerBegins(srv) ==
    /\ server = srv
    /\ \E r \in Req :
          /\ requests[r].state = "waiting"
          /\ CanDispatch(server, Running)
          /\ \E blank \in BOOLEAN :
                LET q == [requests[r] EXCEPT !.blank = blank]
                IN  requests' = [requests EXCEPT ![r] =
                        IF blank THEN Fails(q, "HTTPException(400)")
                        ELSE [q EXCEPT !.state = "streaming"]]
    /\ UNCHANGED <<server, now, in_call, served, outputs>>
    /\ UNCHANGED cloneVars

\* api_server.py lines 168-196
ApiServerTtsEndpoint == EdgeHandlerBegins("api_server")

\* tts_edge_server.py lines 59-87
EdgeServerGenerateSpeech == EdgeHandlerBegins("tts_edge_server")

\* api_server.py lines 198-217, tts_edge_server.py lines 89-115: the stream
\* ends, with audio or without, or fails
StreamEnds ==
    /\ \E r \in Req :
          /\ requests[r].state = "streaming"
          /\ \E outcome \in { "audio", "no_audio", "error" } :
                requests' = [requests EXCEPT ![r] =
                    CASE outcome = "audio" -> [@ EXCEPT !.state = "done", !.status = "200"]
                      [] outcome = "no_audio" -> Fails(@, "HTTPException(500)")
                      [] OTHER -> Fails(@, "EdgeTTSError")]
    /\ UNCHANGED <<server, now, in_call, served, outputs>>
    /\ UNCHANGED cloneVars

\* voice_cloner.py lines 133-136 and their like: a run calls
\* self.tts.tts_to_file on the shared model
BeginCall ==
    /\ \E r \in Req :
          /\ requests[r].state = "clone_voice"
          /\ requests[r].made < requests[r].calls
          /\ requests' = [requests EXCEPT ![r].state = "tts_to_file"]
          /\ in_call' = in_call \cup { r }
          /\ served' = Append(served, r)
    /\ UNCHANGED <<server, now, outputs>>
    /\ UNCHANGED cloneVars

Event(op, r) == [op |-> op, by |-> r]

\* the call returns or raises. A failed call ends the run (the retries of
\* one chunk are taken as one call): tts_server.py lines 89-91 answer 500,
\* app.py lines 126-129 show a message. After the last call the run has
\* written its output file, named after the second the handler read off the
\* clock (tts_server.py lines 60-62, app.py lines 73-74).
EndCall ==
    /\ \E r \in Req :
          /\ requests[r].state = "tts_to_file"
          /\ in_call' = in_call \ { r }
          /\ \E ok \in BOOLEAN :
                LET q == [requests[r] EXCEPT !.made = @ + 1]
                IN  IF ~ok
                    THEN /\ requests' = [requests EXCEPT ![r] =
                                IF server = "app"
                                THEN [q EXCEPT !.state = "done", !.raised = "RuntimeError",
                                               !.status = "message"]
                                ELSE Fails(q, "RuntimeError")]
                         /\ UNCHANGED outputs
                    ELSE IF q.made < q.calls
                    THEN /\ requests' = [requests EXCEPT ![r] =
                                [q EXCEPT !.state = "clone_voice"]]
                         /\ UNCHANGED outputs
                    ELSE /\ requests' = [requests EXCEPT ![r] =
                                [q EXCEPT !.state = "written"]]
                         /\ outputs' = [outputs EXCEPT ![q.timestamp] =
                                           Append(@, Event("write", r))]
    /\ UNCHANGED <<server, now, served>>
    /\ UNCHANGED cloneVars

\* voice_cloner.py line 278, then tts_server.py lines 77-87 or app.py line
\* 124: the run returns its output path and the handler answers with it
ReturnPath ==
    /\ \E r \in Req :
          /\ requests[r].state = "written"
          /\ requests' = [requests EXCEPT ![r].state = "done", ![r].status = "200"]
          /\ outputs' = [outputs EXCEPT ![requests[r].timestamp] =
                            Append(@, Event("return", r))]
    /\ UNCHANGED <<server, now, in_call, served>>
    /\ UNCHANGED cloneVars

\* a server process after import, and the calm state of clone_voice's own
\* variables
InitServer ==
    /\ server \in Servers
    /\ now = 0
    /\ requests = [r \in Req |-> Waiting]
    /\ in_call = {}
    /\ served = <<>>
    /\ outputs = [t \in Seconds |-> <<>>]
    /\ text = << Word(5) >>
    /\ speaker_wav = [exists |-> TRUE, size |-> 1000]
    /\ emotion = "none"
    /\ style_wav = "none"
    /\ gen = [k \in GenKeys |-> None]
    /\ crossfade_ms = None
    /\ silence_thresh_db = None
    /\ min_silence_len_ms = None
    /\ keep_silence_ms = None
    /\ backend = "any"
    /\ outdir = TRUE
    /\ tts_kwargs = <<>>
    /\ cross = 0
    /\ pc = "idle"
    /\ InitLocals

NextServer ==
    \/ Tick
    \/ TtsServerGenerateSpeech
    \/ ProcessPipeline
    \/ ApiServerTtsEndpoint
    \/ EdgeServerGenerateSpeech
    \/ StreamEnds
    \/ BeginCall
    \/ EndCall
    \/ ReturnPath

SpecServer == InitServer /\ [][NextServer]_vars

TypeOK ==
    /\ pc \in { "validate_text", "validate_reference", "mkdir", "build_kwargs",
                "crossfade", "plan", "direct", "chunk_loop", "attempt1", "attempt2",
                "attempt3", "attempt4", "invoker_return", "invoker_raise", "stitch",
                "normalize", "return", "wrap", "done" }
    /\ td \in { "none", "open", "released" }
    /\ i \in 0..(MaxSentences + 1)
    /\ Len(log) <= 4

----------------------------------------------------------------------------
(* Properties *)

\* the text is empty or holds whitespace only
BlankText(t) == \A k \in 1..Len(t) : t[k].c = "ws"

AllFilesAbsent == \A p \in Paths : ~fs[p].present

\* C1: a call with empty or whitespace-only text takes one step only, the
\* rejection with ValueError "Text cannot be empty": no backend call is made,
\* no directory is created and no file is written, whatever the reference
\* file and the other arguments are.
C1_BlankTextRejectedFirst ==
    [][BlankText(text) =>
          /\ pc' = "done"
          /\ result' = Raised("ValueError: Text cannot be empty", "none")
          /\ nCalls' = 0
          /\ nInvoker' = 0
          /\ outdir' = outdir
          /\ td' = "none"
          /\ fs' = fs]_vars

C1_Witness ==
    /\ text = <<Ws, Ws>>
    /\ ~speaker_wav.exists
    /\ ~outdir
    /\ pc = "done"
    /\ result = Raised("ValueError: Text cannot be empty", "none")
    /\ nCalls = 0
    /\ AllFilesAbsent

\* the key names that occur in a failure message's list
QuoteChars == { "'", "\"", " " }
NamedIn(msg) ==
    { x \in UNION { { it[k] : k \in 1..Len(it) } : it \in { msg.items[n] : n \in 1..Len(msg.items) } } :
        x \notin QuoteChars }
NamesKeys(msg) == msg.unused /\ NamedIn(msg) # {}

\* bag a restricted to the keys ks
Restrict(a, ks) == [k \in DOMAIN a \cap ks |-> a[k]]

\* the fixed sequence of bags the protocol goes through for the bag it was
\* given and the first failure's message
Protocol(bag, msg) ==
    LET second == Restrict(bag, DOMAIN bag \ NamedIn(msg))
        reduced == IF NamesKeys(msg) THEN second ELSE bag
    IN  <<bag>> \o (IF NamesKeys(msg) THEN <<second>> ELSE <<>>)
              \o << Restrict(reduced, CoreKeys), Restrict(reduced, CoreKeys) >>

InInvoker == pc \in { "attempt1", "attempt2", "attempt3", "attempt4",
                      "invoker_return", "invoker_raise" }

\* C2: the backend calls of one invoker run are a prefix of the protocol's
\* sequence (full bag; bag minus the keys the first failure names, only when
\* it names keys; core parameters only; minimal set); every call but the last
\* made has failed, the run returns right after the first success and raises
\* only after the whole sequence has failed.
C2_CallsFollowProtocol ==
    InInvoker =>
        LET expected == Protocol(call_kwargs, err_text)
        IN  /\ Len(log) <= Len(expected)
            /\ \A k \in 1..Len(log) : log[k].kw = expected[k]
            /\ \A k \in 1..(Len(log) - 1) : ~log[k].ok
            /\ pc = "invoker_return" <=> (log # <<>> /\ log[Len(log)].ok)
            /\ pc = "invoker_raise" =>
                  Len(log) = Len(expected) /\ \A k \in 1..Len(log) : ~log[k].ok

C2_Witness ==
    /\ pc = "invoker_raise"
    /\ Len(log) = 4
    /\ NamedIn(err_text) = { "style" }
    /\ "style" \in DOMAIN call_kwargs

\* C3: after a first failure naming the keys K the second call's bag is the
\* first call's bag without the keys of K, every other key kept with its
\* value; with the backend that rejects only "style", a run whose bag holds
\* "style" returns after exactly two calls, the second without "style".
C3_SecondCallDropsNamedKeys ==
    /\ (InInvoker /\ Len(log) >= 2 /\ NamesKeys(err_text)) =>
          /\ log[2].level = 2
          /\ DOMAIN log[2].kw = DOMAIN log[1].kw \ NamedIn(err_text)
          /\ \A k \in DOMAIN log[2].kw : log[2].kw[k] = log[1].kw[k]
    /\ (backend = "rejects_style" /\ pc \in { "invoker_return", "invoker_raise" }
          /\ "style" \in DOMAIN call_kwargs) =>
          /\ pc = "invoker_return"
          /\ Len(log) = 2
          /\ ~log[1].ok /\ log[2].ok
          /\ "style" \notin DOMAIN log[2].kw
          /\ DOMAIN log[2].kw = DOMAIN call_kwargs \ { "style" }

C3_Witness ==
    /\ backend = "rejects_style"
    /\ pc = "invoker_return"
    /\ "style" \in DOMAIN call_kwargs
    /\ Len(log) = 2
    /\ log[2].ok

\* C4: graceful degradation: an invoker run raises only after its minimal call
\* has failed, and that call carried the four core parameters (text,
\* reference audio, language, output path); so a backend that accepts such a
\* call never makes the invoker fail, whatever its earlier failures named.
C4_GracefulDegradation ==
    pc = "invoker_raise" =>
        /\ log[Len(log)].level = 4
        /\ ~log[Len(log)].ok
        /\ DOMAIN log[Len(log)].kw = CoreKeys

\* the chunk-by-chunk run in which chunk i exhausted the protocol
ChunkExhausted == exc = "TTSError" /\ i >= 1

\* C5: once the synthesis of chunk i has exhausted the protocol, no backend
\* call is made for a later chunk, nothing is merged or exported to the output
\* path, the silence step is not run, and the call raises (returns no path).
C5_ChunkFailureIsFatal ==
    ChunkExhausted =>
        /\ callOrder = [k \in 1..i |-> k]
        /\ pc \in { "invoker_raise", "wrap", "done" }
        /\ ~exported
        /\ combined = NoFile
        /\ ~fs[Final].present
        /\ ~normalized
        /\ pc = "done" => (result.kind = "raise" /\ result.path = NoPath)

C5_Witness ==
    /\ ChunkExhausted
    /\ i = 1
    /\ Len(chunks) >= 2
    /\ pc = "done"
    /\ result.kind = "raise"

\* C6: chunks are synthesized one after another in chunk order (the first
\* call for chunk k + 1 comes after chunk k's synthesis succeeded), and the
\* merged waveform holds one segment per chunk, the k-th synthesized by the
\* k-th chunk's run, whatever retries the runs needed.
C6_ChunkOrderKept ==
    td # "none" =>
        /\ \A k \in 1..Len(callOrder) : callOrder[k] = k
        /\ Len(callOrder) <= Len(part_files) + 1
        /\ \A k \in 1..Len(part_files) : part_files[k] = PartPath(k)
        /\ exported =>
              /\ Len(combined.segs) = Len(chunks)
              /\ \A k \in 1..Len(chunks) : combined.segs[k].chunk = k
              /\ ~normalized => fs[Final].segs = combined.segs

C6_Witness ==
    /\ exported
    /\ Len(chunks) >= 2
    /\ nCalls > Len(chunks)
    /\ pc = "done"
    /\ result.kind = "return"

\* the ways of cutting n items into consecutive non-empty runs: the sequences
\* of run lengths
RECURSIVE Compositions(_)
Compositions(n) ==
    IF n = 0 THEN { <<>> }
    ELSE UNION { { <<first>> \o rest : rest \in Compositions(n - first) } : first \in 1..n }

RECURSIVE SumTo(_, _)
SumTo(runs, k) == IF k = 0 THEN 0 ELSE runs[k] + SumTo(runs, k - 1)

\* the sentences of run j of the cut `runs`
RunSentences(sents, runs, j) ==
    SubSeq(sents, SumTo(runs, j - 1) + 1, SumTo(runs, j))

\* cs is the cut `runs` of the sentences, each run joined with single spaces
IsCutOf(cs, sents, runs) ==
    /\ Len(runs) = Len(cs)
    /\ \A j \in 1..Len(cs) : cs[j] = JoinWith(RunSentences(sents, runs, j), <<Ws>>)

Planned == pc # "plan" /\ raw_sentences # <<>>

\* C7: the planner's chunks are a cut of the sentence sequence into non-empty
\* runs of consecutive whole sentences, each run joined with single spaces;
\* the chunks joined with single spaces are the sentences joined with single
\* spaces.
C7_ChunksPartitionSentences ==
    Planned =>
        /\ \E runs \in Compositions(Len(raw_sentences)) : IsCutOf(chunks, raw_sentences, runs)
        /\ JoinWith(chunks, <<Ws>>) = JoinWith(raw_sentences, <<Ws>>)
        /\ \A j \in 1..Len(chunks) : chunks[j] # <<>>

C7_Witness ==
    /\ Planned
    /\ Len(raw_sentences) = 3
    /\ Len(chunks) = 2
    /\ PyLen(chunks[1]) = MAX_CHUNK_LENGTH

\* the cut the planner made
RunsOf(cs, sents) ==
    CHOOSE runs \in Compositions(Len(sents)) : IsCutOf(cs, sents, runs)

\* C8: a chunk longer than the maximum consists of exactly one sentence, and
\* a sentence longer than the maximum is a chunk of its own.
C8_OnlySingleSentencesOverLength ==
    Planned =>
        LET runs == RunsOf(chunks, raw_sentences)
        IN  /\ IsCutOf(chunks, raw_sentences, runs)
            /\ \A j \in 1..Len(chunks) :
                  PyLen(chunks[j]) > MAX_CHUNK_LENGTH =>
                      (runs[j] = 1 /\ chunks[j] = raw_sentences[SumTo(runs, j)])
            /\ \A j \in 1..Len(chunks) :
                  (\E n \in (SumTo(runs, j - 1) + 1)..SumTo(runs, j) :
                        PyLen(raw_sentences[n]) > MAX_CHUNK_LENGTH) => runs[j] = 1

C8_Witness ==
    /\ Planned
    /\ Len(chunks) = 3
    /\ PyLen(chunks[1]) <= MAX_CHUNK_LENGTH
    /\ PyLen(chunks[2]) > MAX_CHUNK_LENGTH
    /\ PyLen(chunks[3]) <= MAX_CHUNK_LENGTH

NoSentenceEnd(t) == \A k \in 1..Len(t) : t[k].c # "punct"

\* C9: when the planner yields one chunk (as it does for a text without
\* sentence-final punctuation and for a single sentence within the maximum),
\* the invoker is run once with the request's own bag, writing to the output
\* path; no chunk workspace is created and nothing is merged or exported.
C9_SingleChunkRunsDirectly ==
    /\ (Planned /\ (NoSentenceEnd(text)
                    \/ (Len(raw_sentences) = 1 /\ PyLen(raw_sentences[1]) <= MAX_CHUNK_LENGTH)))
          => Len(chunks) = 1
    /\ (Planned /\ Len(chunks) = 1) =>
          /\ td = "none"
          /\ i = 0
          /\ part_files = <<>>
          /\ \A p \in Paths : p.kind = "part" => ~fs[p].present
          /\ combined = NoFile
          /\ ~exported
          /\ nInvoker <= 1
          /\ nInvoker = 1 => call_kwargs = tts_kwargs
          /\ tts_kwargs["file_path"] = Final
          /\ \A k \in 1..Len(log) :
                "file_path" \in DOMAIN log[k].kw => log[k].kw["file_path"] = Final

C9_Witness ==
    /\ Planned
    /\ Len(chunks) = 1
    /\ NoSentenceEnd(text)
    /\ nInvoker = 1
    /\ fs[Final].present
    /\ pc = "done"
    /\ result = Returned(Final)

RECURSIVE TotalDuration(_)
TotalDuration(segs) == IF segs = <<>> THEN 0 ELSE Head(segs).dur + TotalDuration(Tail(segs))

\* the chunks the planner makes of the request's text
PlanOf(t) == PlanChunks(RawSentences(t))

MinSilence == SilenceSetting(min_silence_len_ms, MIN_SILENCE_LEN_MS)
Keep == SilenceSetting(keep_silence_ms, KEEP_SILENCE_MS)

\* the silence run around stretch j of w: its first and last stretch, its length
AllSilent(w, lo, hi) == \A m \in lo..hi : w[m].k = "silence"
RunLo(w, j) ==
    CHOOSE lo \in 1..j : AllSilent(w, lo, j) /\ (lo = 1 \/ w[lo - 1].k # "silence")
RunHi(w, j) ==
    CHOOSE hi \in j..Len(w) : AllSilent(w, j, hi) /\ (hi = Len(w) \/ w[hi + 1].k # "silence")
RunLength(w, j) == WaveDur(SubSeq(w, RunLo(w, j), RunHi(w, j)))

\* stretch j of w lies in a silence run of at least min ms
Qualifies(w, j, min) == w[j].k = "silence" /\ RunLength(w, j) >= min

\* the first stretches of the qualifying runs, and the runs' total length
QualifyingRuns(w, min) == { j \in 1..Len(w) : Qualifies(w, j, min) /\ RunLo(w, j) = j }
QualifyingLength(w, min) == WaveDur(SelectSeq(w, LAMBDA x : Qualifies(w, x.src, min)))

\* w from stretch j on with every qualifying run replaced by keep ms of silence
RECURSIVE Rewritten(_, _, _, _)
Rewritten(w, j, min, keep) ==
    IF j > Len(w) THEN <<>>
    ELSE IF Qualifies(w, j, min)
         THEN (IF keep > 0 THEN << Silence(keep, -1) >> ELSE <<>>)
              \o Rewritten(w, RunHi(w, j) + 1, min, keep)
    ELSE << w[j] >> \o Rewritten(w, j + 1, min, keep)

\* the silence step ran with settings inside the normalizer's contract: a
\* negative threshold and a positive minimum run length
InContract == audio.present /\ s_thresh < 0 /\ min_sil > 0

\* the silence step found long silences and wrote the rebuilt waveform
Rewrote == normalized /\ swallowed = "none" /\ silent_ranges # <<>> /\ InContract

OutsideRuns(w, min) == SelectSeq(w, LAMBDA x : ~Qualifies(w, x.src, min))
\* the stretches of w copied from the loaded waveform, in order
Copied(w) == SelectSeq(w, LAMBDA x : x.src # -1)

\* C12: when the silence step, run with a negative threshold and a positive
\* minimum, rewrites the file, the stretches of the loaded
\* waveform outside the qualifying runs (sound, and silences shorter than the
\* minimum; before the first run, between runs and after the last) are all in
\* the written waveform, whole, once each and in their order.
C12_AudioOutsideRunsKept ==
    Rewrote => Copied(fs[Final].wave) = OutsideRuns(audio.wave, MinSilence)

C12_Witness ==
    /\ Rewrote
    /\ Cardinality(QualifyingRuns(audio.wave, MinSilence)) = 2
    /\ ~Qualifies(audio.wave, 1, MinSilence)
    /\ ~Qualifies(audio.wave, Len(audio.wave), MinSilence)
    /\ Len(OutsideRuns(audio.wave, MinSilence)) = 3
    /\ Len(Copied(fs[Final].wave)) = 3

\* the silence step loaded a waveform without a silence run of the minimum
NothingToRewrite ==
    normalized /\ InContract /\ QualifyingRuns(audio.wave, MinSilence) = {}

\* C13: when the loaded waveform holds no silence run of at least the
\* (positive) minimum, the silence step writes nothing: the file at the output path is
\* the one that was loaded, not exported again, nothing was raised inside the
\* step, and the output path is what the call returns.
C13_NoQualifyingRunIsNoOp ==
    NothingToRewrite =>
        /\ fs[Final] = audio
        /\ ~fs[Final].processed
        /\ silent_ranges = <<>>
        /\ swallowed = "none"
        /\ pc = "done" => result = Returned(Final)

C13_Witness ==
    /\ NothingToRewrite
    /\ \E j \in 1..Len(audio.wave) : audio.wave[j].k = "silence"
    /\ WaveDur(audio.wave) > MinSilence
    /\ pc = "done"
    /\ result = Returned(Final)
    /\ fs[Final] = audio

\* C14 as claimed: once synthesis (and stitching) succeeded and the silence
\* step was entered, the call returns the output path and raises nothing; and
\* if something failed inside the silence step, the file at the output path
\* is the complete, unrewritten waveform that synthesis or stitching wrote.
C14_NormalizationFailureKeepsRawAudio ==
    (normalized /\ pc = "done") =>
        /\ result = Returned(Final)
        /\ swallowed # "none" =>
              /\ Loadable(fs[Final])
              /\ ~fs[Final].processed
              /\ audio.present => fs[Final] = audio

\* C16 as claimed: whenever the call returns a path, it is the requested
\* output path and the file there exists and holds one waveform written to
\* the end: the synthesized or merged one, or the rewritten one.
C16_ReturnedArtifactIsComplete ==
    result.kind = "return" =>
        /\ result.path = Final
        /\ fs[Final].present
        /\ fs[Final].complete
        /\ fs[Final].wave # <<>>

\* the errors raised by the input validation of lines 69-78
ValidationErrors ==
    { "ValueError: Text cannot be empty",
      "FileNotFoundError: Reference audio file not found",
      "ValueError: Reference audio file seems too small" }

\* the request fails the input validation
InvalidRequest ==
    TextIsEmpty(text) \/ ReferenceMissing(speaker_wav) \/ ReferenceTooSmall(speaker_wav.size)

\* C15: an exception raised inside the try block (making the output
\* directory, building the bag, making the chunk workspace, synthesis,
\* merging, export) and not recovered from stops the run, and the call raises
\* RuntimeError "Failed to clone voice" with that exception as its cause; a
\* validation error is raised as it is, with no cause, and nothing else is.
C15_FailuresWrappedOnce ==
    /\ exc # "none" => pc \in { "invoker_raise", "wrap", "done" }
    /\ pc = "wrap" => exc # "none"
    /\ pc = "done" =>
          /\ exc # "none" => result = Raised("RuntimeError: Failed to clone voice", exc)
          /\ exc = "none" /\ result.kind = "raise" =>
                /\ InvalidRequest
                /\ result.exc \in ValidationErrors
                /\ result.cause = "none"
          /\ InvalidRequest => (result.kind = "raise" /\ result.exc \in ValidationErrors)

C15_Witness ==
    /\ pc = "done"
    /\ exported = FALSE
    /\ Len(part_files) >= 2
    /\ result = Raised("RuntimeError: Failed to clone voice",
                       "ValueError: Crossfade is longer than the original AudioSegment")

\* the reference file is missing, or smaller than 1000 bytes
BadReference(ref) == ~ref.exists \/ ref.size < 1000

\* C17: a call with usable text whose reference file is missing raises
\* FileNotFoundError, and one whose reference file is smaller than 1000
\* bytes raises ValueError "too small"; the call takes the two validation
\* steps only: no backend call and no invoker run is made, no directory is
\* created, no file is written, and the error has no wrapping RuntimeError.
C17_BadReferenceRejected ==
    [][(~BlankText(text) /\ BadReference(speaker_wav)) =>
          /\ pc' \in { "validate_reference", "done" }
          /\ pc' = "done" =>
                result' = Raised(IF ~speaker_wav.exists
                                 THEN "FileNotFoundError: Reference audio file not found"
                                 ELSE "ValueError: Reference audio file seems too small",
                                 "none")
          /\ exc' = "none"
          /\ nCalls' = 0
          /\ nInvoker' = 0
          /\ outdir' = outdir
          /\ td' = "none"
          /\ fs' = fs]_vars

C17_Witness ==
    /\ ~BlankText(text)
    /\ speaker_wav = [exists |-> TRUE, size |-> 999]
    /\ ~outdir
    /\ pc = "done"
    /\ result = Raised("ValueError: Reference audio file seems too small", "none")
    /\ nCalls = 0
    /\ AllFilesAbsent

\* C18 as claimed: the third call of an invoker run carries exactly text,
\* speaker_wav, language and file_path -- no optional key, and no core key
\* missing -- whatever the first failure's message named.
C18_ThirdAttemptCarriesCoreKeys ==
    \A k \in 1..Len(log) : log[k].level = 3 => DOMAIN log[k].kw = CoreKeys

\* the stretches of w made by a crossfade
Joins(w) == SelectSeq(w, LAMBDA x : x.src = -1)

\* C19: when N >= 2 chunk segments of durations d_1..d_N were merged with
\* crossfade c > 0 and exported, the merged waveform lasts
\* d_1 + ... + d_N - (N - 1) * c ms: it holds N - 1 joins of exactly c ms,
\* each standing for c ms of the audio before it and c ms of the segment
\* after it.
C19_MergedDurationLosesOverlaps ==
    exported =>
        /\ cross > 0
        /\ Len(combined.segs) = Len(chunks)
        /\ Len(chunks) >= 2
        /\ WaveDur(combined.wave) =
              TotalDuration(combined.segs) - (Len(chunks) - 1) * cross
        /\ combined.dur = WaveDur(combined.wave)
        /\ Len(Joins(combined.wave)) = Len(chunks) - 1
        /\ \A j \in 1..Len(Joins(combined.wave)) : Joins(combined.wave)[j].d = cross

C19_Witness ==
    /\ exported
    /\ Len(combined.segs) >= 2
    /\ combined.segs[1].dur # combined.segs[2].dur
    /\ WaveDur(combined.wave) < TotalDuration(combined.segs)
    /\ pc = "normalize"
    /\ fs[Final] = combined

\* no chunk file exists
NoPartFiles == \A p \in Paths : p.kind = "part" => ~fs[p].present

\* C20: the chunk workspace exists only while the chunks are synthesized and
\* merged: once the run has left the with block -- normally, by a chunk's
\* failed synthesis, or by a failed load, merge or export -- and so whenever
\* the call has returned or raised, the directory is released and none of
\* its chunk files exists.
C20_WorkspaceReleased ==
    /\ pc \in { "normalize", "return", "wrap", "done" } => (td # "open" /\ NoPartFiles)
    /\ td # "open" => NoPartFiles

C20_Witness ==
    /\ pc = "done"
    /\ td = "released"
    /\ Len(part_files) >= 1
    /\ exc = "TTSError"
    /\ result.kind = "raise"
    /\ NoPartFiles

\* a generation argument that float() does not accept
MalformedGen == \E k \in GenKeys : gen[k].t # "none" /\ ToFloat(gen[k]) = "ValueError"

\* a crossfade that int() does not accept, or a negative one
MalformedCrossfade ==
    /\ crossfade_ms.t # "none"
    /\ (~IntOk(crossfade_ms) \/ ToInt(crossfade_ms) < 0)

\* C21 as claimed: a request with a valid text and reference and a malformed
\* parameter (a generation argument or crossfade that is no number, or a
\* negative crossfade) ends in the invalid-input error raised as it is: no
\* backend call was made, the error has no cause (it is not the wrapped
\* RuntimeError), and the run never went on with another value in place of
\* the malformed one. (Runs whose output directory could not be made fail
\* for that reason and are left out.)
C21_MalformedParameterRejected ==
    (~InvalidRequest /\ (MalformedGen \/ MalformedCrossfade) /\ exc # "OSError: mkdir") =>
        /\ nCalls = 0
        /\ pc \notin { "plan", "direct" }
        /\ pc = "done" =>
              /\ result.kind = "raise"
              /\ result.cause = "none"
              /\ result.exc \notin { "RuntimeError: Failed to clone voice" }

\* the sentence that opens chunk j of the cut `runs`
FirstSentence(sents, runs, j) == sents[SumTo(runs, j - 1) + 1]

\* the string current_chunk held when sentence n of chunk j was reached: the
\* chunk's sentences before it, joined with single spaces
ChunkBefore(sents, runs, j, n) ==
    JoinWith(SubSeq(sents, SumTo(runs, j - 1) + 1, n - 1), <<Ws>>)

\* C25: the planner is greedy and maximal. A chunk is closed only when the
\* next sentence no longer fits: for consecutive chunks c_j, c_j+1,
\* len(c_j) + 1 + len(first sentence of c_j+1) > 250; and every sentence that
\* was appended to a chunk fitted: len(current) + len(sentence) + 1 <= 250.
C25_PlanningGreedyAndMaximal ==
    Planned =>
        LET runs == RunsOf(chunks, raw_sentences)
        IN  /\ IsCutOf(chunks, raw_sentences, runs)
            /\ \A j \in 1..(Len(chunks) - 1) :
                  PyLen(chunks[j]) + 1 + PyLen(FirstSentence(raw_sentences, runs, j + 1))
                      > MAX_CHUNK_LENGTH
            /\ \A j \in 1..Len(chunks) :
                  \A n \in (SumTo(runs, j - 1) + 2)..SumTo(runs, j) :
                      PyLen(ChunkBefore(raw_sentences, runs, j, n))
                          + PyLen(raw_sentences[n]) + 1 <= MAX_CHUNK_LENGTH

\* two sentences fill a chunk to exactly 250 characters, and the short
\* sentence after them opens the next chunk
C25_Witness ==
    /\ Planned
    /\ Len(raw_sentences) = 3
    /\ Len(chunks) = 2
    /\ PyLen(raw_sentences[1]) + 1 + PyLen(raw_sentences[2]) = MAX_CHUNK_LENGTH
    /\ chunks[1] = JoinSentence(raw_sentences[1], raw_sentences[2])
    /\ chunks[2] = raw_sentences[3]
    /\ PyLen(raw_sentences[3]) < 10

\* the bag the current invoker run was given: the request's bag in a direct
\* run, lines 211-213 for chunk i
GivenBag == IF i = 0 THEN tts_kwargs ELSE PartKwargs(tts_kwargs, chunks[i], i)

\* C26: the invoker never changes the bag it is given, and nothing of one
\* chunk's degradation reaches the next: throughout and after every invoker
\* run the bag handed in is still what the caller built, the request's bag
\* is still the one built at lines 87-121, and the first backend call of
\* every run -- also of chunk i+1 after chunk i needed retries -- carries
\* that bag in full, differing between chunks only in text and file_path.
C26_BagNotMutatedNorCarried ==
    /\ tts_kwargs # <<>> => tts_kwargs = BuildKwargs(text, emotion, style_wav, gen)
    /\ InInvoker =>
          /\ call_kwargs = GivenBag
          /\ DOMAIN call_kwargs = DOMAIN tts_kwargs
          /\ \A key \in DOMAIN tts_kwargs \ { "text", "file_path" } :
                call_kwargs[key] = tts_kwargs[key]
          /\ log # <<>> => (log[1].level = 1 /\ log[1].kw = GivenBag)

\* chunk 1 needed a second call without 'style'; chunk 2's first call
\* carries 'style' again
C26_Witness ==
    /\ backend = "rejects_style"
    /\ i = 2
    /\ Len(log) = 1
    /\ nCalls = 3
    /\ "style" \in DOMAIN log[1].kw
    /\ log[1].kw = PartKwargs(tts_kwargs, chunks[2], 2)
    /\ fs[PartPath(1)].present

\* the invoker runs a request needs at most: one, or one per chunk
MaxInvokerRuns == IF Len(chunks) <= 1 THEN 1 ELSE Len(chunks)

CallBudgetKept ==
    /\ Len(log) <= 4
    /\ \A k \in 1..Len(log) : log[k].level \in 1..4 /\ (k > 1 => log[k - 1].level < log[k].level)
    /\ nInvoker <= MaxInvokerRuns
    /\ nCalls <= 4 * nInvoker

\* C27: the degradation protocol terminates. Whatever the backend answers,
\* an invoker run makes at most 4 backend calls, of strictly rising attempt
\* number, a run over N chunks makes at most 4N, and every call of
\* clone_voice eventually returns a path or raises.
C27_ProtocolTerminates ==
    /\ []CallBudgetKept
    /\ <>(pc = "done" /\ result.kind \in { "return", "raise" })

\* a two-chunk run that used its whole budget: eight backend calls
C27_Witness ==
    /\ pc = "done"
    /\ Len(chunks) = 2
    /\ nInvoker = 2
    /\ nCalls = 8
    /\ result.kind = "raise"

\* the silence step got past line 244
SettingsChosen == normalized /\ audio.present

\* C24: each of the three silence settings is chosen on its own: the
\* request's value whenever one is given, 0 included, and the default of
\* config.py (-40 dB, 400 ms, 250 ms) only when none is given; and the values
\* chosen are the ones the detection and the rewriting work with.
C24_SilenceOverridesChosenIndependently ==
    SettingsChosen =>
        /\ silence_thresh_db = None => s_thresh = SILENCE_THRESH_DB
        /\ silence_thresh_db # None => s_thresh = NumeralValue(silence_thresh_db.v)
        /\ min_silence_len_ms = None => min_sil = MIN_SILENCE_LEN_MS
        /\ min_silence_len_ms # None => min_sil = NumeralValue(min_silence_len_ms.v)
        /\ keep_silence_ms = None => keep_ms = KEEP_SILENCE_MS
        /\ keep_silence_ms # None => keep_ms = NumeralValue(keep_silence_ms.v)
        /\ silent_ranges = DetectSilence(audio.wave, min_sil, s_thresh)
        /\ (silent_ranges # <<>> /\ swallowed = "none") =>
              fs[Final].wave = Processed(audio, silent_ranges, keep_ms).wave

\* a keep of 0 given with the other two omitted: a 400 ms silence is cut out
\* whole
C24_Witness ==
    /\ SettingsChosen
    /\ silence_thresh_db = None
    /\ min_silence_len_ms = None
    /\ keep_silence_ms = PyInt("0")
    /\ s_thresh = SILENCE_THRESH_DB
    /\ min_sil = MIN_SILENCE_LEN_MS
    /\ keep_ms = 0
    /\ silent_ranges # <<>>
    /\ swallowed = "none"
    /\ WaveDur(fs[Final].wave) = WaveDur(audio.wave) - 400

\* the calls of one request are not parted by another request's
NotInterleaved(calls) ==
    \A a \in 1..Len(calls) : \A b \in a..Len(calls) : \A c \in b..Len(calls) :
        calls[a] = calls[c] => calls[b] = calls[a]

\* C22 as claimed: in a process whose requests share the one VoiceCloner, at
\* most one tts_to_file call is in progress on it at any time, and the calls
\* of one request are never parted by a call of another.
C22_ModelUsedByOneCallAtATime ==
    server \in { "tts_server", "app" } =>
        /\ Cardinality(in_call) <= 1
        /\ NotInterleaved(served)

\* C23 as claimed: once a run has returned its output path, the file there is
\* not written again, by that run or by any other the server starts.
C23_ReturnedArtifactNotRewritten ==
    \A t \in Seconds :
        \A a \in 1..Len(outputs[t]) : \A b \in a..Len(outputs[t]) :
            ~(outputs[t][a].op = "return" /\ outputs[t][b].op = "write")

HttpServers == { "tts_server", "api_server", "tts_edge_server" }

\* C28 as claimed: the /tts handlers answer a request whose text is blank
\* with status 400 and one whose reference cannot be found anywhere with 404
\* (the reference is looked for first); 500 answers only failures that are
\* neither.
C28_ClientErrorsKeepTheirStatus ==
    server \in HttpServers =>
        \A r \in Req :
            requests[r].state = "done" =>
                /\ requests[r].reference = "missing" => requests[r].status = "404"
                /\ (requests[r].blank /\ requests[r].reference # "missing") =>
                      requests[r].status = "400"
                /\ requests[r].status = "500" =>
                      (~requests[r].blank /\ requests[r].reference # "missing")

====
